---------------------------- MODULE Spec2Model ----------------------------
(***************************************************************************)
(* Receipt processor (src/api.go): the validator, the points engine and    *)
(* the mutex-guarded receipt store behind the two HTTP handlers.           *)
(*                                                                         *)
(* Chars gives a string's characters.  A float64 amount is a               *)
(* record Fin(hi, lo) standing for hi + lo / 10^9 with 0 <= lo < 10^9, or  *)
(* one of NaN, PosInf, NegInf.  Arithmetic on them is exact decimal        *)
(* arithmetic; on the amounts drawn below it decides every comparison the  *)
(* code makes as float64 does (binary rounding error is about 10^-16,      *)
(* the tolerance 10^-9, and the only differences of exactly 10^-9 drawn    *)
(* are between 0, 1e-9 and 2e-9, where float64 is exact too).              *)
(***************************************************************************)
EXTENDS Integers, Sequences, FiniteSets, TLC

VARIABLES receipts, mapMutex, uuids, ctx, snapshot, issued, input, verdict,
          points

vars ==
    <<receipts, mapMutex, uuids, ctx, snapshot, issued, input, verdict, points>>

----------------------------------------------------------------------------
(* Bounds of the model *)

\* longest items list drawn for the validator and the points engine
MaxItems == 2
\* number of concurrent request handlers (gin runs one goroutine per request)
NumHandlers == 2
\* number of identifiers uuid.New() can hand out in one behaviour
MaxIds == 2

----------------------------------------------------------------------------
(* Characters and strings *)

Digits == <<"0", "1", "2", "3", "4", "5", "6", "7", "8", "9">>

isDigit(c) == \E i \in 1..10 : Digits[i] = c

DigitVal(c) == (CHOOSE i \in 1..10 : Digits[i] = c) - 1

LowerCase == {"a", "b", "c", "d", "e", "f", "g", "h", "i", "j", "k", "l", "m",
              "n", "o", "p", "q", "r", "s", "t", "u", "v", "w", "x", "y", "z"}

UpperCase == {"A", "B", "C", "D", "E", "F", "G", "H", "I", "J", "K", "L", "M",
              "N", "O", "P", "Q", "R", "S", "T", "U", "V", "W", "X", "Y", "Z"}

\* unicode.IsSpace on the characters drawn here
isSpace(c) == c = " "

\* the characters of every string the requests below carry
Spelling ==
       "" :> <<>>
    @@ " abc " :> <<" ", "a", "b", "c", " ">>
    @@ "&" :> <<"&">>
    @@ "-10.10" :> <<"-", "1", "0", ".", "1", "0">>
    @@ "0" :> <<"0">>
    @@ "0.000000001" :> <<"0", ".", "0", "0", "0", "0", "0", "0", "0", "0", "1">>
    @@ "0.000000002" :> <<"0", ".", "0", "0", "0", "0", "0", "0", "0", "0", "2">>
    @@ "1,10" :> <<"1", ",", "1", "0">>
    @@ "1.10" :> <<"1", ".", "1", "0">>
    @@ "10.00" :> <<"1", "0", ".", "0", "0">>
    @@ "13:01" :> <<"1", "3", ":", "0", "1">>
    @@ "1433" :> <<"1", "4", "3", "3">>
    @@ "14:60" :> <<"1", "4", ":", "6", "0">>
    @@ "2022-01-01" :> <<"2", "0", "2", "2", "-", "0", "1", "-", "0", "1">>
    @@ "2022-01-02" :> <<"2", "0", "2", "2", "-", "0", "1", "-", "0", "2">>
    @@ "2022-02-30" :> <<"2", "0", "2", "2", "-", "0", "2", "-", "3", "0">>
    @@ "2022-1-01" :> <<"2", "0", "2", "2", "-", "1", "-", "0", "1">>
    @@ "2024-02-29" :> <<"2", "0", "2", "4", "-", "0", "2", "-", "2", "9">>
    @@ "24:00" :> <<"2", "4", ":", "0", "0">>
    @@ "5.00" :> <<"5", ".", "0", "0">>
    @@ "6.10" :> <<"6", ".", "1", "0">>
    @@ "9:05" :> <<"9", ":", "0", "5">>
    @@ "Inf" :> <<"I", "n", "f">>
    @@ "M&M 7" :> <<"M", "&", "M", " ", "7">>
    @@ "NaN" :> <<"N", "a", "N">>
    @@ "Target" :> <<"T", "a", "r", "g", "e", "t">>
    @@ "ab" :> <<"a", "b">>
    @@ "00:00" :> <<"0", "0", ":", "0", "0">>
    @@ "00:33" :> <<"0", "0", ":", "3", "3">>
    @@ "00:59" :> <<"0", "0", ":", "5", "9">>
    @@ "01:00" :> <<"0", "1", ":", "0", "0">>
    @@ "01:33" :> <<"0", "1", ":", "3", "3">>
    @@ "01:59" :> <<"0", "1", ":", "5", "9">>
    @@ "02:00" :> <<"0", "2", ":", "0", "0">>
    @@ "02:33" :> <<"0", "2", ":", "3", "3">>
    @@ "02:59" :> <<"0", "2", ":", "5", "9">>
    @@ "03:00" :> <<"0", "3", ":", "0", "0">>
    @@ "03:33" :> <<"0", "3", ":", "3", "3">>
    @@ "03:59" :> <<"0", "3", ":", "5", "9">>
    @@ "04:00" :> <<"0", "4", ":", "0", "0">>
    @@ "04:33" :> <<"0", "4", ":", "3", "3">>
    @@ "04:59" :> <<"0", "4", ":", "5", "9">>
    @@ "05:00" :> <<"0", "5", ":", "0", "0">>
    @@ "05:33" :> <<"0", "5", ":", "3", "3">>
    @@ "05:59" :> <<"0", "5", ":", "5", "9">>
    @@ "06:00" :> <<"0", "6", ":", "0", "0">>
    @@ "06:33" :> <<"0", "6", ":", "3", "3">>
    @@ "06:59" :> <<"0", "6", ":", "5", "9">>
    @@ "07:00" :> <<"0", "7", ":", "0", "0">>
    @@ "07:33" :> <<"0", "7", ":", "3", "3">>
    @@ "07:59" :> <<"0", "7", ":", "5", "9">>
    @@ "08:00" :> <<"0", "8", ":", "0", "0">>
    @@ "08:33" :> <<"0", "8", ":", "3", "3">>
    @@ "08:59" :> <<"0", "8", ":", "5", "9">>
    @@ "09:00" :> <<"0", "9", ":", "0", "0">>
    @@ "09:33" :> <<"0", "9", ":", "3", "3">>
    @@ "09:59" :> <<"0", "9", ":", "5", "9">>
    @@ "10:00" :> <<"1", "0", ":", "0", "0">>
    @@ "10:33" :> <<"1", "0", ":", "3", "3">>
    @@ "10:59" :> <<"1", "0", ":", "5", "9">>
    @@ "11:00" :> <<"1", "1", ":", "0", "0">>
    @@ "11:33" :> <<"1", "1", ":", "3", "3">>
    @@ "11:59" :> <<"1", "1", ":", "5", "9">>
    @@ "12:00" :> <<"1", "2", ":", "0", "0">>
    @@ "12:33" :> <<"1", "2", ":", "3", "3">>
    @@ "12:59" :> <<"1", "2", ":", "5", "9">>
    @@ "13:00" :> <<"1", "3", ":", "0", "0">>
    @@ "13:33" :> <<"1", "3", ":", "3", "3">>
    @@ "13:59" :> <<"1", "3", ":", "5", "9">>
    @@ "14:00" :> <<"1", "4", ":", "0", "0">>
    @@ "14:33" :> <<"1", "4", ":", "3", "3">>
    @@ "14:59" :> <<"1", "4", ":", "5", "9">>
    @@ "15:00" :> <<"1", "5", ":", "0", "0">>
    @@ "15:33" :> <<"1", "5", ":", "3", "3">>
    @@ "15:59" :> <<"1", "5", ":", "5", "9">>
    @@ "16:00" :> <<"1", "6", ":", "0", "0">>
    @@ "16:33" :> <<"1", "6", ":", "3", "3">>
    @@ "16:59" :> <<"1", "6", ":", "5", "9">>
    @@ "17:00" :> <<"1", "7", ":", "0", "0">>
    @@ "17:33" :> <<"1", "7", ":", "3", "3">>
    @@ "17:59" :> <<"1", "7", ":", "5", "9">>
    @@ "18:00" :> <<"1", "8", ":", "0", "0">>
    @@ "18:33" :> <<"1", "8", ":", "3", "3">>
    @@ "18:59" :> <<"1", "8", ":", "5", "9">>
    @@ "19:00" :> <<"1", "9", ":", "0", "0">>
    @@ "19:33" :> <<"1", "9", ":", "3", "3">>
    @@ "19:59" :> <<"1", "9", ":", "5", "9">>
    @@ "20:00" :> <<"2", "0", ":", "0", "0">>
    @@ "20:33" :> <<"2", "0", ":", "3", "3">>
    @@ "20:59" :> <<"2", "0", ":", "5", "9">>
    @@ "21:00" :> <<"2", "1", ":", "0", "0">>
    @@ "21:33" :> <<"2", "1", ":", "3", "3">>
    @@ "21:59" :> <<"2", "1", ":", "5", "9">>
    @@ "22:00" :> <<"2", "2", ":", "0", "0">>
    @@ "22:33" :> <<"2", "2", ":", "3", "3">>
    @@ "22:59" :> <<"2", "2", ":", "5", "9">>
    @@ "23:00" :> <<"2", "3", ":", "0", "0">>
    @@ "23:33" :> <<"2", "3", ":", "3", "3">>
    @@ "23:59" :> <<"2", "3", ":", "5", "9">>

Chars(str) == Spelling[str]

AllDigits(s) == \A i \in 1..Len(s) : isDigit(s[i])

\* decimal value of a sequence of digits
RECURSIVE DecVal(_)
DecVal(s) ==
    IF Len(s) = 0 THEN 0
    ELSE 10 * DecVal(SubSeq(s, 1, Len(s) - 1)) + DigitVal(s[Len(s)])

RECURSIVE Pow10(_)
Pow10(n) == IF n = 0 THEN 1 ELSE 10 * Pow10(n - 1)

\* strings.TrimSpace
RECURSIVE TrimLeft(_)
TrimLeft(s) ==
    IF Len(s) > 0 /\ isSpace(s[1]) THEN TrimLeft(Tail(s)) ELSE s

RECURSIVE TrimRight(_)
TrimRight(s) ==
    IF Len(s) > 0 /\ isSpace(s[Len(s)])
    THEN TrimRight(SubSeq(s, 1, Len(s) - 1))
    ELSE s

TrimSpace(s) == TrimRight(TrimLeft(s))

----------------------------------------------------------------------------
(* float64 amounts *)

\* 10^9: the number of lo units in 1.0, so that 1e-9 is one unit
Giga == 1000000000
\* the tolerance of almostEqual, 1e-9, in lo units
Tolerance == 1
\* 0.25 in lo units
Quarter == 250000000

Fin(hi, lo) == [k |-> "fin", hi |-> hi, lo |-> lo]

NaN == [k |-> "nan", hi |-> 0, lo |-> 0]
PosInf == [k |-> "+inf", hi |-> 0, lo |-> 0]
NegInf == [k |-> "-inf", hi |-> 0, lo |-> 0]

IsFinite(v) == v.k = "fin"

Zero == Fin(0, 0)

FNeg(v) ==
    CASE v = NaN -> NaN
      [] v = PosInf -> NegInf
      [] v = NegInf -> PosInf
      [] OTHER -> IF v.lo = 0 THEN Fin(-v.hi, 0) ELSE Fin(-v.hi - 1, Giga - v.lo)

\* a + b
FAdd(a, b) ==
    CASE a = NaN \/ b = NaN -> NaN
      [] ~IsFinite(a) /\ ~IsFinite(b) -> IF a = b THEN a ELSE NaN
      [] ~IsFinite(a) -> a
      [] ~IsFinite(b) -> b
      [] OTHER ->
           IF a.lo + b.lo >= Giga
           THEN Fin(a.hi + b.hi + 1, a.lo + b.lo - Giga)
           ELSE Fin(a.hi + b.hi, a.lo + b.lo)

\* a - b
FSub(a, b) == FAdd(a, FNeg(b))

\* math.Abs
FAbs(v) ==
    CASE v = NaN -> NaN
      [] v \in {PosInf, NegInf} -> PosInf
      [] OTHER -> IF v.hi < 0 THEN FNeg(v) ELSE v

\* v <= 1e-9 (false when v is NaN)
LeTolerance(v) ==
    CASE v = NaN -> FALSE
      [] v = PosInf -> FALSE
      [] v = NegInf -> TRUE
      [] OTHER -> v.hi < 0 \/ (v.hi = 0 /\ v.lo <= Tolerance)

\* float64(int(v)): truncation toward zero, v finite
Truncate(v) ==
    CASE IsFinite(v) ->
           IF v.hi >= 0 \/ v.lo = 0 THEN Fin(v.hi, 0) ELSE Fin(v.hi + 1, 0)

\* math.Mod(v, 0.25), v finite: the remainder carries the sign of v
ModQuarter(v) ==
    CASE IsFinite(v) ->
           IF v.hi >= 0
           THEN Fin(0, v.lo % Quarter)
           ELSE FNeg(Fin(0, FNeg(v).lo % Quarter))

\* int(math.Ceil(v * 0.2)), v finite
CeilFifth(v) ==
    CASE IsFinite(v) ->
           (v.hi \div 5) + (IF v.hi % 5 = 0 /\ v.lo = 0 THEN 0 ELSE 1)

\* a == b in place of the tolerance
almostEqualExact(a, b) == a = b

\* almostEqual: math.Abs(a - b) <= 1e-9
almostEqual(a, b) == LeTolerance(FAbs(FSub(a, b)))

----------------------------------------------------------------------------
(* strconv.ParseFloat on decimal numerals without exponent, "NaN", "Inf" *)

NoSign(s) == IF Len(s) > 0 /\ s[1] \in {"+", "-"} THEN Tail(s) ELSE s

DotAt(s) == {i \in 1..Len(s) : s[i] = "."}

IntPart(s) ==
    IF DotAt(s) = {} THEN s
    ELSE SubSeq(s, 1, (CHOOSE i \in DotAt(s) : TRUE) - 1)

FracPart(s) ==
    IF DotAt(s) = {} THEN <<>>
    ELSE SubSeq(s, (CHOOSE i \in DotAt(s) : TRUE) + 1, Len(s))

IsNumeral(s) ==
    /\ Cardinality(DotAt(s)) <= 1
    /\ AllDigits(IntPart(s))
    /\ AllDigits(FracPart(s))
    /\ Len(IntPart(s)) + Len(FracPart(s)) >= 1
    /\ Pow10(Len(FracPart(s))) <= Giga

Magnitude(s) ==
    Fin(DecVal(IntPart(s)),
        DecVal(FracPart(s)) * (Giga \div Pow10(Len(FracPart(s)))))

\* [err |-> whether ParseFloat returns an error, val |-> the float64 returned]
ParseFloatChars(s) ==
    LET body == NoSign(s)
        neg == Len(s) > 0 /\ s[1] = "-"
    IN  CASE s = <<"N", "a", "N">> -> [err |-> FALSE, val |-> NaN]
          [] body = <<"I", "n", "f">> ->
               [err |-> FALSE, val |-> IF neg THEN NegInf ELSE PosInf]
          [] IsNumeral(body) ->
               [err |-> FALSE,
                val |-> IF neg THEN FNeg(Magnitude(body)) ELSE Magnitude(body)]
          [] OTHER -> [err |-> TRUE, val |-> Zero]

----------------------------------------------------------------------------
(* time.Parse *)

isLeap(year) == year % 4 = 0 /\ (year % 100 # 0 \/ year % 400 = 0)

daysIn(month, year) ==
    CASE month = 2 -> IF isLeap(year) THEN 29 ELSE 28
      [] month \in {4, 6, 9, 11} -> 30
      [] OTHER -> 31

\* time.Parse("2006-01-02", s): [err, day]; the zero time has day 1
ParseDateChars(s) ==
    LET shape == /\ Len(s) = 10
                 /\ AllDigits(SubSeq(s, 1, 4))
                 /\ s[5] = "-"
                 /\ AllDigits(SubSeq(s, 6, 7))
                 /\ s[8] = "-"
                 /\ AllDigits(SubSeq(s, 9, 10))
        year == DecVal(SubSeq(s, 1, 4))
        month == DecVal(SubSeq(s, 6, 7))
        day == DecVal(SubSeq(s, 9, 10))
    IN  IF shape /\ month \in 1..12 /\ day >= 1 /\ day <= daysIn(month, year)
        THEN [err |-> FALSE, day |-> day]
        ELSE [err |-> TRUE, day |-> 1]

\* time.Parse("15:04", s): [err, hour]; the hour takes one or two digits,
\* the minute exactly two; the zero time has hour 0
ParseTimeChars(s) ==
    LET n == IF Len(s) >= 2 /\ isDigit(s[1]) /\ isDigit(s[2]) THEN 2 ELSE 1
        shape == /\ Len(s) = n + 3
                 /\ AllDigits(SubSeq(s, 1, n))
                 /\ s[n + 1] = ":"
                 /\ AllDigits(SubSeq(s, n + 2, n + 3))
        hour == DecVal(SubSeq(s, 1, n))
        min == DecVal(SubSeq(s, n + 2, n + 3))
    IN  IF shape /\ hour < 24 /\ min < 60
        THEN [err |-> FALSE, hour |-> hour]
        ELSE [err |-> TRUE, hour |-> 0]

----------------------------------------------------------------------------
(* What the code computes from each string, worked out once per string *)

\* the characters c with (c >= 'a' && c <= 'z') || (c >= 'A' && c <= 'Z') ||
\* (c >= '0' && c <= '9')
AlnumCount(s) ==
    Cardinality({i \in 1..Len(s) :
                    \/ s[i] \in LowerCase
                    \/ s[i] \in UpperCase
                    \/ isDigit(s[i])})

Parsed ==
    [str \in DOMAIN Spelling |->
        [float |-> ParseFloatChars(Chars(str)),
         date |-> ParseDateChars(Chars(str)),
         time |-> ParseTimeChars(Chars(str)),
         alnum |-> AlnumCount(Chars(str)),
         trimmed |-> Len(TrimSpace(Chars(str)))]]

\* strconv.ParseFloat(str, 64)
ParseFloat(str) == Parsed[str].float

\* time.Parse("2006-01-02", str)
ParseDate(str) == Parsed[str].date

\* time.Parse("15:04", str)
ParseTime(str) == Parsed[str].time

----------------------------------------------------------------------------
(* The points engine *)

Item(d, p) == [shortDescription |-> d, price |-> p]

Receipt(r, d, t, its, tot) ==
    [retailer |-> r, purchaseDate |-> d, purchaseTime |-> t,
     items |-> its, total |-> tot]

\* Rule 1: one point per ASCII letter or digit
calculatePointsForRetailerName(s) == Parsed[s].alnum

\* Rules 2 and 3; a total that does not parse is read as 0
calcuatePointsForTotal(t) ==
    LET total == ParseFloat(t).val
    IN  (IF almostEqual(total, Truncate(total)) THEN 50 ELSE 0)
        + (IF almostEqual(ModQuarter(total), Zero) THEN 25 ELSE 0)

\* Rule 5 over the items in order
RECURSIVE DescriptionPoints(_)
DescriptionPoints(items) ==
    IF Len(items) = 0 THEN 0
    ELSE (IF Parsed[items[1].shortDescription].trimmed % 3 = 0
          THEN CeilFifth(ParseFloat(items[1].price).val)
          ELSE 0)
         + DescriptionPoints(Tail(items))

\* Rules 4 and 5
calculatePointsForItems(items) ==
    (Len(items) \div 2) * 5 + DescriptionPoints(items)

\* Rule 7
calculatePointsForPurchaseDate(d) ==
    IF ParseDate(d).day % 2 = 1 THEN 6 ELSE 0

\* Rule 8 with the hour 16 left out
calculatePointsForPurchaseTimeBefore4(t) ==
    LET hour == ParseTime(t).hour
    IN  IF hour >= 14 /\ hour < 16 THEN 10 ELSE 0

\* Rule 8
calculatePointsForPurchaseTime(t) ==
    LET hour == ParseTime(t).hour
    IN  IF hour >= 14 /\ hour <= 16 THEN 10 ELSE 0

calculatePoints(receipt) ==
    calculatePointsForRetailerName(receipt.retailer)
    + calcuatePointsForTotal(receipt.total)
    + calculatePointsForItems(receipt.items)
    + calculatePointsForPurchaseDate(receipt.purchaseDate)
    + calculatePointsForPurchaseTime(receipt.purchaseTime)

----------------------------------------------------------------------------
(* The validator *)

Nil == "nil"
Error == "error"

PriceError(items) == \E i \in 1..Len(items) : ParseFloat(items[i].price).err

\* the loop's sum, in item order, starting from var sum float64
RECURSIVE SumPrices(_)
SumPrices(items) ==
    IF Len(items) = 0 THEN Zero
    ELSE FAdd(SumPrices(SubSeq(items, 1, Len(items) - 1)),
              ParseFloat(items[Len(items)].price).val)

\* validateReceipt without the comparison of total and sum
validateReceiptNoSum(receipt) ==
    CASE ParseDate(receipt.purchaseDate).err -> Error
      [] ParseTime(receipt.purchaseTime).err -> Error
      [] ParseFloat(receipt.total).err -> Error
      [] PriceError(receipt.items) -> Error
      [] OTHER -> Nil

validateReceipt(receipt) ==
    CASE ParseDate(receipt.purchaseDate).err -> Error
      [] ParseTime(receipt.purchaseTime).err -> Error
      [] ParseFloat(receipt.total).err -> Error
      [] PriceError(receipt.items) -> Error
      [] ~almostEqual(ParseFloat(receipt.total).val, SumPrices(receipt.items))
           -> Error
      [] OTHER -> Nil

----------------------------------------------------------------------------
(* Receipts drawn for the validator and the points engine *)

\* sequences over S of length 0..n
RECURSIVE SeqsUpTo(_, _)
SeqsUpTo(S, n) ==
    IF n = 0 THEN {<<>>}
    ELSE LET shorter == SeqsUpTo(S, n - 1)
         IN  shorter \cup {Append(q, x) : q \in shorter, x \in S}

EngineDescriptions == {" abc ", "ab"}

EnginePrices ==
    {"5.00", "1.10",
     "-10.10", "0",
     "1,10", "Inf"}

EngineTotals ==
    {"5.00", "1.10",
     "-10.10", "6.10",
     "10.00", "0",
     "0.000000001",
     "0.000000002",
     "1,10", "NaN", "Inf"}

EngineItems ==
    SeqsUpTo({Item(d, p) : d \in EngineDescriptions, p \in EnginePrices},
             MaxItems)

EvenDay == "2022-01-02"

EngineDates ==
    {"2022-01-01", EvenDay,
     "2022-02-30",
     "2024-02-29",
     "2022-1-01"}

Morning == "13:01"

EngineTimes ==
    {"00:00", "00:33", "00:59",
     "01:00", "01:33", "01:59",
     "02:00", "02:33", "02:59",
     "03:00", "03:33", "03:59",
     "04:00", "04:33", "04:59",
     "05:00", "05:33", "05:59",
     "06:00", "06:33", "06:59",
     "07:00", "07:33", "07:59",
     "08:00", "08:33", "08:59",
     "09:00", "09:33", "09:59",
     "10:00", "10:33", "10:59",
     "11:00", "11:33", "11:59",
     "12:00", "12:33", "12:59",
     "13:00", "13:33", "13:59",
     "14:00", "14:33", "14:59",
     "15:00", "15:33", "15:59",
     "16:00", "16:33", "16:59",
     "17:00", "17:33", "17:59",
     "18:00", "18:33", "18:59",
     "19:00", "19:33", "19:59",
     "20:00", "20:33", "20:59",
     "21:00", "21:33", "21:59",
     "22:00", "22:33", "22:59",
     "23:00", "23:33", "23:59"}
    \cup {"9:05", "24:00",
          "14:60", "1433"}

EngineRetailers ==
    {"&", "M&M 7", "Target"}

OneItem == <<Item("ab", "1.10")>>

\* every items list and total against a good and a bad date and time, then
\* each of retailer, date and time swept over an otherwise valid receipt
EngineInputs ==
    {Receipt("&", d, t, its, tot) :
        d \in {EvenDay, "2022-02-30"},
        t \in {Morning, "24:00"},
        its \in EngineItems, tot \in EngineTotals}
    \cup {Receipt(r, d, Morning, OneItem, "1.10") :
            r \in EngineRetailers, d \in EngineDates}
    \cup {Receipt("&", EvenDay, t, OneItem, "1.10") :
            t \in EngineTimes}

Pending == "pending"

NoPoints ==
    [applied |-> FALSE, retailer |-> 0, total |-> 0, items |-> 0, date |-> 0,
     time |-> 0, sum |-> 0]

\* the five contributions calculatePoints adds up, and their sum
RulePoints(receipt) ==
    [applied |-> TRUE,
     retailer |-> calculatePointsForRetailerName(receipt.retailer),
     total |-> calcuatePointsForTotal(receipt.total),
     items |-> calculatePointsForItems(receipt.items),
     date |-> calculatePointsForPurchaseDate(receipt.purchaseDate),
     time |-> calculatePointsForPurchaseTime(receipt.purchaseTime),
     sum |-> calculatePoints(receipt)]

----------------------------------------------------------------------------
(* The server: request handlers over the shared map *)

Handlers == 1..NumHandlers

\* the identifiers uuid.New() can return
Ids == 1..MaxIds

\* a path parameter that is no identifier uuid.New() returns; an identifier
\* uuid.New() has yet to return is looked up as one
Stranger == 0
NoId == -1

\* the zero Receipt: every field missing
NoReceipt == Receipt("", "", "", <<>>, "")

EmptyMap == [i \in {} |-> NoReceipt]

Unlocked == 0

ZeroPointsReceipt ==
    Receipt("&", EvenDay, Morning, OneItem, "1.10")

AfternoonReceipt ==
    Receipt("M&M 7",
            "2022-01-01",
            "14:33",
            <<Item(" abc ", "5.00")>>,
            "5.00")

NoItemsReceipt == [ZeroPointsReceipt EXCEPT !.items = <<>>, !.total = "0"]

BadDateReceipt ==
    [ZeroPointsReceipt EXCEPT
        !.purchaseDate = "2022-02-30"]

BadTimeReceipt ==
    [ZeroPointsReceipt EXCEPT !.purchaseTime = "24:00"]

BadTotalReceipt == [ZeroPointsReceipt EXCEPT !.total = "1,10"]

BadPriceReceipt ==
    [ZeroPointsReceipt EXCEPT
        !.items = <<Item("ab", "1,10")>>]

MismatchReceipt == [ZeroPointsReceipt EXCEPT !.total = "5.00"]

\* the request bodies clients post
Payloads ==
    {ZeroPointsReceipt, AfternoonReceipt, NoReceipt, NoItemsReceipt,
     BadDateReceipt, BadTimeReceipt, BadTotalReceipt, BadPriceReceipt,
     MismatchReceipt}

\* binding without min=1 on items
ShouldBindJSONNoMin(body) ==
    IF \/ body.retailer = ""
       \/ body.purchaseDate = ""
       \/ body.purchaseTime = ""
       \/ body.total = ""
    THEN Error
    ELSE Nil

\* c.ShouldBindJSON(&receipt) under the binding tags of Receipt: a required
\* string is not empty, items holds at least one element (gin does not
\* descend into the elements: the tags of Item lack a dive)
ShouldBindJSON(body) ==
    IF \/ body.retailer = ""
       \/ body.purchaseDate = ""
       \/ body.purchaseTime = ""
       \/ Len(body.items) < 1
       \/ body.total = ""
    THEN Error
    ELSE Nil

NoResponse == [status |-> 0, description |-> "", id |-> NoId, points |-> 0]

BadRequest ==
    [status |-> 400, description |-> "The receipt is invalid.",
     id |-> NoId, points |-> 0]

NotFound ==
    [status |-> 404, description |-> "No receipt found for that ID.",
     id |-> NoId, points |-> 0]

OkId(id) == [status |-> 200, description |-> "", id |-> id, points |-> 0]

OkPoints(n) == [status |-> 200, description |-> "", id |-> NoId, points |-> n]

\* a handler's request and locals: the route, receipt (the bound body or the
\* value read), receiptId, exists, and the response written; issued records
\* the receipt behind every identifier a response has carried
IdleCtx ==
    [pc |-> "idle", route |-> "none", receipt |-> NoReceipt, receiptId |-> NoId,
     exists |-> FALSE, resp |-> NoResponse]

\* uuid.New(): an identifier never returned before
NewUUID == Ids \ uuids

\* a Lock that does not wait
MutexLockNoWait(h) == mapMutex' = h

\* mapMutex.Lock()
MutexLock(h) == mapMutex = Unlocked /\ mapMutex' = h

\* a path that returns without Unlock
MutexUnlockForgotten(h) == mapMutex' = mapMutex

\* mapMutex.Unlock()
MutexUnlock(h) == mapMutex' = Unlocked

\* an insert that replaces the map
MapAssignFresh(m, id, receipt) == [k \in {id} |-> receipt]

\* an insert of the receipt variable before it is bound
MapAssignUnbound(m, id, receipt) ==
    [k \in DOMAIN m \cup {id} |-> IF k = id THEN NoReceipt ELSE m[k]]

\* receipts[receiptId] = receipt
MapAssign(m, id, receipt) ==
    [k \in DOMAIN m \cup {id} |-> IF k = id THEN receipt ELSE m[k]]

\* handlers inside a map write
Writers == {w \in Handlers : ctx[w].pc = "assigning"}

\* receipt, exists := receipts[receiptId].  A read that overlaps a write of
\* the same key is a data race: it may miss the entry, see it whole, or see
\* it half written
MapAccess(m, id) ==
    IF \E w \in Writers : ctx[w].receiptId = id
    THEN LET r == ctx[CHOOSE w \in Writers : ctx[w].receiptId = id].receipt
         IN  {[exists |-> FALSE, receipt |-> NoReceipt],
              [exists |-> TRUE, receipt |-> r],
              [exists |-> TRUE, receipt |-> [r EXCEPT !.items = <<>>]]}
    ELSE IF id \in DOMAIN m
         THEN {[exists |-> TRUE, receipt |-> m[id]]}
         ELSE {[exists |-> FALSE, receipt |-> NoReceipt]}

Goto(h, label) == ctx' = [ctx EXCEPT ![h].pc = label]

\* c.JSON(...) and return: the locals go, the request line and the response
\* stay on record
Reply(h, response) ==
    ctx' = [ctx EXCEPT ![h] = [IdleCtx EXCEPT !.pc = "done",
                                               !.route = ctx[h].route,
                                               !.receiptId = ctx[h].receiptId,
                                               !.resp = response]]

(* processReceipt *)

\* the posts that have yet to reach uuid.New()
Undrawn ==
    {w \in Handlers : ctx[w].pc \in {"bind", "validate", "newid"}}

\* POST /receipts/process arrives with a body, while an identifier is left
\* for it
ReceiveProcess(h, body) ==
    /\ ctx[h].pc = "idle"
    /\ Cardinality(uuids) + Cardinality(Undrawn) < MaxIds
    /\ ctx' = [ctx EXCEPT ![h].pc = "bind", ![h].route = "process",
                          ![h].receipt = body]
    /\ UNCHANGED <<receipts, mapMutex, uuids, issued, snapshot, input, verdict,
                   points>>

ProcessBind(h) ==
    /\ ctx[h].pc = "bind"
    /\ IF ShouldBindJSON(ctx[h].receipt) # Nil
       THEN Reply(h, BadRequest)
       ELSE Goto(h, "validate")
    /\ UNCHANGED <<receipts, mapMutex, uuids, issued, snapshot, input, verdict,
                   points>>

ProcessValidate(h) ==
    /\ ctx[h].pc = "validate"
    /\ IF validateReceipt(ctx[h].receipt) # Nil
       THEN Reply(h, BadRequest)
       ELSE Goto(h, "newid")
    /\ UNCHANGED <<receipts, mapMutex, uuids, issued, snapshot, input, verdict,
                   points>>

ProcessNewId(h) ==
    /\ ctx[h].pc = "newid"
    /\ \E id \in NewUUID :
          /\ ctx' = [ctx EXCEPT ![h].pc = "lock", ![h].receiptId = id]
          /\ uuids' = uuids \cup {id}
    /\ UNCHANGED <<receipts, mapMutex, issued, snapshot, input, verdict, points>>

ProcessLock(h) ==
    /\ ctx[h].pc = "lock"
    /\ MutexLock(h)
    /\ Goto(h, "assign")
    /\ UNCHANGED <<receipts, uuids, issued, snapshot, input, verdict, points>>

\* the map write starts from the map as it is now ...
ProcessAssign(h) ==
    /\ ctx[h].pc = "assign"
    /\ Goto(h, "assigning")
    /\ snapshot' = [snapshot EXCEPT ![h] = receipts]
    /\ UNCHANGED <<receipts, mapMutex, uuids, issued, input, verdict, points>>

\* ... and ends with the entry in it
ProcessAssigned(h) ==
    /\ ctx[h].pc = "assigning"
    /\ receipts' = MapAssign(snapshot[h], ctx[h].receiptId, ctx[h].receipt)
    /\ Goto(h, "unlock")
    /\ snapshot' = [snapshot EXCEPT ![h] = EmptyMap]
    /\ UNCHANGED <<mapMutex, uuids, issued, input, verdict, points>>

ProcessUnlock(h) ==
    /\ ctx[h].pc = "unlock"
    /\ MutexUnlock(h)
    /\ Goto(h, "respond")
    /\ UNCHANGED <<receipts, uuids, issued, snapshot, input, verdict, points>>

ProcessRespond(h) ==
    /\ ctx[h].pc = "respond"
    /\ Reply(h, OkId(ctx[h].receiptId))
    /\ issued' = [id \in DOMAIN issued \cup {ctx[h].receiptId} |->
                      IF id = ctx[h].receiptId THEN ctx[h].receipt
                      ELSE issued[id]]
    /\ UNCHANGED <<receipts, mapMutex, uuids, snapshot, input, verdict, points>>

(* getReceiptPoints *)

\* GET /receipts/:id/points arrives
ReceiveGet(h, id) ==
    /\ ctx[h].pc = "idle"
    /\ ctx' = [ctx EXCEPT ![h].pc = "glock", ![h].route = "points",
                          ![h].receiptId = id]
    /\ UNCHANGED <<receipts, mapMutex, uuids, issued, snapshot, input, verdict,
                   points>>

GetLock(h) ==
    /\ ctx[h].pc = "glock"
    /\ MutexLock(h)
    /\ Goto(h, "lookup")
    /\ UNCHANGED <<receipts, uuids, issued, snapshot, input, verdict, points>>

GetLookup(h) ==
    /\ ctx[h].pc = "lookup"
    /\ \E found \in MapAccess(receipts, ctx[h].receiptId) :
          ctx' = [ctx EXCEPT ![h].pc = "gunlock",
                             ![h].receipt = found.receipt,
                             ![h].exists = found.exists]
    /\ UNCHANGED <<receipts, mapMutex, uuids, issued, snapshot, input, verdict,
                   points>>

GetUnlock(h) ==
    /\ ctx[h].pc = "gunlock"
    /\ MutexUnlock(h)
    /\ Goto(h, "points")
    /\ UNCHANGED <<receipts, uuids, issued, snapshot, input, verdict, points>>

\* the lookup's exists ignored
GetRespondUnchecked(h) ==
    /\ ctx[h].pc = "points"
    /\ Reply(h, OkPoints(calculatePoints(ctx[h].receipt)))
    /\ UNCHANGED <<receipts, mapMutex, uuids, issued, snapshot, input, verdict,
                   points>>

GetRespond(h) ==
    /\ ctx[h].pc = "points"
    /\ IF ~ctx[h].exists
       THEN Reply(h, NotFound)
       ELSE Reply(h, OkPoints(calculatePoints(ctx[h].receipt)))
    /\ UNCHANGED <<receipts, mapMutex, uuids, issued, snapshot, input, verdict,
                   points>>

\* the handler returns and its goroutine serves the next request
Return(h) ==
    /\ ctx[h].pc = "done"
    /\ ctx' = [ctx EXCEPT ![h] = IdleCtx]
    /\ UNCHANGED <<receipts, mapMutex, uuids, issued, snapshot, input, verdict,
                   points>>

ServerIdle ==
    /\ receipts = EmptyMap
    /\ mapMutex = Unlocked
    /\ uuids = {}
    /\ ctx = [h \in Handlers |-> IdleCtx]
    /\ snapshot = [h \in Handlers |-> EmptyMap]
    /\ issued = EmptyMap

Init ==
    /\ ServerIdle
    /\ input = NoReceipt
    /\ verdict = Pending
    /\ points = NoPoints

Next ==
    \E h \in Handlers :
        \/ \E body \in Payloads : ReceiveProcess(h, body)
        \/ ProcessBind(h)
        \/ ProcessValidate(h)
        \/ ProcessNewId(h)
        \/ ProcessLock(h)
        \/ ProcessAssign(h)
        \/ ProcessAssigned(h)
        \/ ProcessUnlock(h)
        \/ ProcessRespond(h)
        \/ \E id \in uuids \cup {Stranger} : ReceiveGet(h, id)
        \/ GetLock(h)
        \/ GetLookup(h)
        \/ GetUnlock(h)
        \/ GetRespond(h)
        \/ Return(h)

Spec == Init /\ [][Next]_vars

\* the same handlers serving one body of each fate: stored, rejected at
\* binding, rejected at validation
NextOfEachFate ==
    \E h \in Handlers :
        \/ \E body \in {AfternoonReceipt, NoItemsReceipt, MismatchReceipt} :
              ReceiveProcess(h, body)
        \/ ProcessBind(h)
        \/ ProcessValidate(h)
        \/ ProcessNewId(h)
        \/ ProcessLock(h)
        \/ ProcessAssign(h)
        \/ ProcessAssigned(h)
        \/ ProcessUnlock(h)
        \/ ProcessRespond(h)
        \/ \E id \in uuids \cup {Stranger} : ReceiveGet(h, id)
        \/ GetLock(h)
        \/ GetLookup(h)
        \/ GetUnlock(h)
        \/ GetRespond(h)
        \/ Return(h)

\* the steps a scheduled goroutine takes without waiting
Run(h) ==
    \/ ProcessBind(h)
    \/ ProcessValidate(h)
    \/ ProcessNewId(h)
    \/ ProcessAssign(h)
    \/ ProcessAssigned(h)
    \/ ProcessUnlock(h)
    \/ ProcessRespond(h)
    \/ GetLookup(h)
    \/ GetUnlock(h)
    \/ GetRespond(h)

\* a runnable goroutine is scheduled, and sync.Mutex hands the lock to a
\* goroutine that keeps waiting for it (starvation mode)
Fairness ==
    \A h \in Handlers :
        /\ WF_vars(Run(h))
        /\ SF_vars(ProcessLock(h))
        /\ SF_vars(GetLock(h))

FairSpec == Init /\ [][NextOfEachFate]_vars /\ Fairness

----------------------------------------------------------------------------
(* The validator and the points engine applied to one receipt *)

EngineInit ==
    /\ ServerIdle
    /\ input \in EngineInputs
    /\ verdict = Pending
    /\ points = NoPoints

EngineValidate ==
    /\ verdict = Pending
    /\ verdict' = validateReceipt(input)
    /\ UNCHANGED <<receipts, mapMutex, uuids, ctx, snapshot, issued, input,
                   points>>

EngineScore ==
    /\ verdict = Nil
    /\ ~points.applied
    /\ points' = RulePoints(input)
    /\ UNCHANGED <<receipts, mapMutex, uuids, ctx, snapshot, issued, input,
                   verdict>>

EngineNext == EngineValidate \/ EngineScore

EngineSpec == EngineInit /\ [][EngineNext]_vars

----------------------------------------------------------------------------
(* What the claims speak of, stated apart from the code's own checks *)

\* |a - b| <= 1e-9 for finite a and b
Within(a, b) ==
    LET d == FSub(a, b)
    IN  /\ IsFinite(a)
        /\ IsFinite(b)
        /\ \/ d.hi = 0 /\ d.lo <= 1
           \/ d.hi = -1 /\ d.lo >= Giga - 1

DateTimeParse(r) ==
    ~ParseDate(r.purchaseDate).err /\ ~ParseTime(r.purchaseTime).err

AmountsParse(r) ==
    /\ ~ParseFloat(r.total).err
    /\ \A i \in 1..Len(r.items) : ~ParseFloat(r.items[i].price).err

TotalMatches(r) == Within(ParseFloat(r.total).val, SumPrices(r.items))

\* a validated receipt
Validated(r) ==
    /\ Len(r.items) >= 1
    /\ DateTimeParse(r)
    /\ AmountsParse(r)
    /\ TotalMatches(r)

\* a body that binds and validates
Acceptable(r) ==
    /\ r.retailer # ""
    /\ r.purchaseDate # ""
    /\ r.purchaseTime # ""
    /\ r.total # ""
    /\ Validated(r)

InCriticalSection(h) ==
    ctx[h].pc \in {"assign", "assigning", "unlock", "lookup", "gunlock"}

Looked(h) == ctx[h].route = "points" /\ ctx[h].pc \in {"gunlock", "points"}

Answered(h, route) == ctx[h].route = route /\ ctx[h].pc = "done"

\* C1: every receipt in the store is a validated receipt: items is not empty,
\* date and time parse, total and prices parse, total is the sum of the
\* prices within 1e-9
C1_StoredReceiptsValidated ==
    \A id \in DOMAIN receipts : Validated(receipts[id])

\* a receipt is stored while another request has been rejected
C1_Witness ==
    /\ DOMAIN receipts # {}
    /\ \E h \in Handlers : Answered(h, "process") /\ ctx[h].resp = BadRequest

\* C2: the receipt behind an identifier a submit has answered with stays in
\* the store as accepted; every lookup of it from then on finds that receipt,
\* and the points answered for it are calculatePoints of that receipt
C2_LookupReturnsAccepted ==
    /\ [](\A id \in DOMAIN issued :
            id \in DOMAIN receipts /\ receipts[id] = issued[id])
    /\ [][\A h \in Handlers :
            (/\ ctx[h].pc = "lookup"
             /\ ctx'[h].pc = "gunlock"
             /\ ctx[h].receiptId \in DOMAIN issued)
            => /\ ctx'[h].exists
               /\ ctx'[h].receipt = issued[ctx[h].receiptId]]_vars
    /\ [][\A h \in Handlers :
            (/\ ctx[h].pc = "points"
             /\ ctx'[h].pc = "done"
             /\ ctx[h].exists
             /\ ctx[h].receiptId \in DOMAIN issued)
            => ctx'[h].resp
                  = OkPoints(calculatePoints(issued[ctx[h].receiptId]))]_vars

\* a lookup of an issued identifier has been answered with its points
C2_Witness ==
    \E h \in Handlers :
        /\ Answered(h, "points")
        /\ ctx[h].receiptId \in DOMAIN issued
        /\ issued[ctx[h].receiptId] = AfternoonReceipt
        /\ ctx[h].resp.status = 200
        /\ ctx[h].resp.points > 0

\* C3 as claimed: a get-points request for an identifier no submit has
\* answered with so far is answered not-found
C3_UnissuedIsNotFound ==
    \A h \in Handlers :
        (Answered(h, "points") /\ ctx[h].receiptId \notin DOMAIN issued)
        => ctx[h].resp = NotFound

\* C3 amended: a lookup finds an identifier exactly when it is in the store
\* at that moment; a request that did not find it is answered not-found (so
\* is every request for an identifier uuid.New() never returned), and points,
\* 0 included, are answered only for an identifier in the store
C3_AbsentIsNotFound ==
    /\ [][\A h \in Handlers :
            (ctx[h].pc = "lookup" /\ ctx'[h].pc = "gunlock")
            => (ctx'[h].exists <=> ctx[h].receiptId \in DOMAIN receipts)]_vars
    /\ [][\A h \in Handlers :
            (ctx[h].pc = "points" /\ ctx'[h].pc = "done")
            => IF ctx[h].exists
               THEN /\ ctx[h].receiptId \in DOMAIN receipts
                    /\ ctx'[h].resp.status = 200
               ELSE ctx'[h].resp = NotFound]_vars
    /\ [](\A h \in Handlers :
            Answered(h, "points")
            => /\ ctx[h].resp.status \in {200, 404}
               /\ ctx[h].resp.status = 404 => ctx[h].resp = NotFound
               /\ ctx[h].receiptId \notin DOMAIN receipts
                     => ctx[h].resp = NotFound)

\* a stored receipt is answered with 0 points while a stranger is not found
C3_Witness ==
    \E h, g \in Handlers :
        /\ Answered(h, "points")
        /\ ctx[h].receiptId \in DOMAIN receipts
        /\ ctx[h].resp = OkPoints(0)
        /\ Answered(g, "points")
        /\ ctx[g].receiptId = Stranger
        /\ ctx[g].resp = NotFound

\* C4: an identifier in the store maps to the same receipt in the next state
C4_NeverUpdatedOrDeleted ==
    [][\A id \in DOMAIN receipts :
          id \in DOMAIN receipts' /\ receipts'[id] = receipts[id]]_vars

\* the store holds two receipts and one of them has been looked up
C4_Witness ==
    /\ Cardinality(DOMAIN receipts) >= 2
    /\ \E h \in Handlers : Answered(h, "points") /\ ctx[h].resp.status = 200

\* C5: at most one handler is between Lock and Unlock and it holds mapMutex,
\* every insert that has completed is in the store, and a lookup's result is
\* either no entry or the complete stored receipt
C5_Linearizable ==
    /\ \A h, g \in Handlers :
          InCriticalSection(h) /\ InCriticalSection(g) => h = g
    /\ \A h \in Handlers : InCriticalSection(h) => mapMutex = h
    /\ \A h \in Handlers :
          (ctx[h].route = "process" /\ ctx[h].pc \in {"unlock", "respond"})
          => /\ ctx[h].receiptId \in DOMAIN receipts
             /\ receipts[ctx[h].receiptId] = ctx[h].receipt
    /\ \A id \in uuids :
          (\A h \in Handlers :
              ~(/\ ctx[h].receiptId = id
                /\ ctx[h].pc \in {"lock", "assign", "assigning"}))
          => id \in DOMAIN receipts
    /\ \A h \in Handlers :
          Looked(h)
          => IF ctx[h].exists
             THEN /\ ctx[h].receiptId \in DOMAIN receipts
                  /\ ctx[h].receipt = receipts[ctx[h].receiptId]
             ELSE ctx[h].receipt = NoReceipt

\* the earlier submits are in the store, one more insert is under way, and a
\* lookup of the identifier being inserted waits for the lock
C5_Witness ==
    /\ Cardinality(DOMAIN receipts) = MaxIds - 1
    /\ \E h, g \in Handlers :
          /\ ctx[h].pc = "assigning"
          /\ ctx[g].pc = "glock"
          /\ ctx[g].receiptId = ctx[h].receiptId

\* C6 as claimed: the score of a receipt validateReceipt accepts is not
\* negative
C6_ScoreNonNegative == points.applied => points.sum >= 0

\* C7 as claimed: a receipt whose total is the sum of its prices within 1e-9
\* validates, one whose difference exceeds 1e-9 does not
C7_ValidatesIffTotalMatches ==
    (verdict # Pending /\ AmountsParse(input))
    => (verdict = Nil <=> TotalMatches(input))

\* C7 amended: among receipts whose date and time parse and whose total and
\* prices parse, the total within 1e-9 of the sum validates; any receipt whose
\* amounts parse and differ by more than 1e-9 does not
C7_ValidatesIffTotalMatchesGivenParse ==
    verdict # Pending
    => /\ (DateTimeParse(input) /\ AmountsParse(input) /\ TotalMatches(input))
          => verdict = Nil
       /\ (AmountsParse(input) /\ ~TotalMatches(input)) => verdict = Error

\* a total that is within the tolerance of the sum, and not the sum, validates
C7_Witness ==
    /\ verdict = Nil
    /\ ParseFloat(input.total).val # SumPrices(input.items)
    /\ Len(input.items) >= 1

\* C8: a submit whose body fails binding or validation is answered with the
\* generic 400 whichever check failed, is given no identifier, and its steps
\* leave the store as it was
C8_RejectedLeavesNoTrace ==
    /\ [](\A h \in Handlers :
            (/\ ctx[h].route = "process"
             /\ ctx[h].pc # "done"
             /\ ~Acceptable(ctx[h].receipt))
            => ctx[h].pc \in {"bind", "validate"} /\ ctx[h].receiptId = NoId)
    /\ [][\A h \in Handlers :
            (/\ ctx[h].pc \in {"bind", "validate"}
             /\ ~Acceptable(ctx[h].receipt)
             /\ ctx'[h] # ctx[h])
            => /\ receipts' = receipts
               /\ uuids' = uuids
               /\ issued' = issued
               /\ ctx'[h].receiptId = NoId
               /\ ctx'[h].pc = "done" => ctx'[h].resp = BadRequest
               /\ ctx'[h].pc \in {"validate", "done"}]_vars

\* one request rejected at binding and one at validation, both with the same
\* response, beside a store that holds a receipt
C8_Witness ==
    /\ DOMAIN receipts # {}
    /\ \E h \in Handlers :
          /\ ctx[h].pc = "validate"
          /\ ctx[h].receipt = MismatchReceipt
    /\ \E g \in Handlers : Answered(g, "process") /\ ctx[g].resp = BadRequest

\* the characters of a time before its colon
HourText(t) ==
    LET s == Chars(t)
    IN  SubSeq(s, 1, (CHOOSE i \in 1..Len(s) : s[i] = ":") - 1)

\* C9: the afternoon rule gives 10 exactly for the hours 14, 15 and 16,
\* whatever the minute, and 0 for every other valid time
C9_AfternoonRule ==
    points.applied
    => /\ points.time
            = (IF HourText(input.purchaseTime)
                    \in {<<"1", "4">>, <<"1", "5">>, <<"1", "6">>}
               THEN 10 ELSE 0)
       /\ input.purchaseTime \in {"14:33", "16:59"} => points.time = 10
       /\ input.purchaseTime \in {"13:59", "17:00"} => points.time = 0

\* 16:59 has been scored
C9_Witness ==
    points.applied /\ input.purchaseTime = "16:59" /\ points.time = 10

\* C10: the lock is held only around the map access, by the handler inside
\* it, and every request received is answered
C10_EveryRequestCompletes ==
    /\ [](\A h \in Handlers :
            /\ mapMutex = h => InCriticalSection(h)
            /\ ctx[h].pc \in {"bind", "validate", "newid", "respond", "points"}
                  => mapMutex # h)
    /\ \A h \in Handlers : (ctx[h].pc # "idle") ~> (ctx[h].pc = "done")

\* a handler waits for the lock another handler holds
C10_Witness ==
    \E h, g \in Handlers :
        /\ mapMutex = h
        /\ ctx[h].pc = "lookup"
        /\ ctx[g].pc = "lock"

=============================================================================
